---- MODULE Spec2Model ----
\* Model of pyts/plot/main.py: the plotting formats (axForm classes), their
\* _calc dispatch and _calc_tsdata/_calc_tsrun lookups, the psd/coh helpers,
\* and the fig_axForms figure class with new_summ_fig.
EXTENDS Integers, Sequences, FiniteSets, TLC

VARIABLES heap, figs, last, pend

vars == <<heap, figs, last, pend>>

\* ------------------------------------------------------------------ bounds

\* Largest number of formats a caller builds for itself to call their calc
\* methods on.
MaxUserObjs == 1

\* Longest axforms list handed to fig_axForms / new_summ_fig.
MaxAxforms == 2

\* Sample intervals dt are the rationals n/d, d in 1..MaxDtDen.
MaxDtDen == 2

DtVals == {<<n, d>> : n \in {100, 175}, d \in 1..MaxDtDen}

\* Hub indices (iz, iy) of the data objects.
HubVals == {<<1, 1>>}

\* Python None, for tuple-valued and for integer-valued optional arguments.
\* An optional integer i is carried as <<i>>.
None == <<>>

\* igrid values given to constructors / stored on a format.
StoredIgrids == {None, <<0, 1>>}

\* igrid values given in a _calc_tsdata / _calc_tsrun call (tuples).
CallIgrids == {None, <<0, 0>>, <<1, 0>>}

\* lateral index given in a profile _calc_* call (integers).
CallIy == {None, <<0>>, <<2>>}

\* window_time_sec values given to spec_axForm / cohere_axForm.
WindowArgs == {300, 600}

\* Figure numbers used by the callers; 400 is new_summ_fig's default.
DefaultFignum == 400

FigNums == {DefaultFignum}

\* ------------------------------------------------------- class hierarchy

AxFormClasses ==
    {"prof_axForm", "velprof_axForm", "tkeprof_axForm", "stressprof_axForm",
     "spec_axForm", "cohere_axForm"}

ProfClasses == {"prof_axForm", "velprof_axForm", "tkeprof_axForm", "stressprof_axForm"}

\* Base class of each format class.
Parent(cls) ==
    CASE cls = "base_axForm" -> "object"
      [] cls = "prof_axForm" -> "base_axForm"
      [] cls = "velprof_axForm" -> "prof_axForm"
      [] cls = "tkeprof_axForm" -> "prof_axForm"
      [] cls = "stressprof_axForm" -> "tkeprof_axForm"
      [] cls = "spec_axForm" -> "base_axForm"
      [] cls = "cohere_axForm" -> "base_axForm"
      [] OTHER -> "object"

\* Names bound in each class body (class attributes, methods and properties).
ClassDict(cls) ==
    CASE cls = "base_axForm" ->
           {"method_map", "hide_ylabels", "_lin_x_scale", "_xscale", "_yscale",
            "finalize", "_calc", "plot", "_xlabel"}
      [] cls = "prof_axForm" -> {"yax", "_ylabel", "hrel"}
      [] cls = "velprof_axForm" ->
           {"xax", "_title", "_xlabel", "_calc_tsdata", "_calc_tsrun"}
      [] cls = "tkeprof_axForm" ->
           {"xax", "_title", "_lin_x_scale", "_calc_tsdata", "_calc_tsrun"}
      [] cls = "stressprof_axForm" ->
           {"xax", "_title", "_lin_x_scale", "_grid_x", "_labels",
            "_calc_tsdata", "_calc_tsrun"}
      [] cls = "spec_axForm" ->
           {"hrel", "_title", "yax", "xax", "_xlabel", "_ylabel", "_xscale",
            "_yscale", "_calc_tsdata", "_calc_tsrun"}
      [] cls = "cohere_axForm" ->
           {"hrel", "_title", "xax", "yax", "_xlim_dat", "_xlabel", "_xscale",
            "_calc_tsdata", "_calc_tsrun"}
      [] OTHER -> {}

\* hasattr(self, name) for a name that is no instance attribute: some class
\* of the MRO (the chain of base classes) binds it.
RECURSIVE HasAttr(_, _)
HasAttr(cls, name) ==
    /\ cls # "object"
    /\ (name \in ClassDict(cls) \/ HasAttr(Parent(cls), name))

\* The class that supplies attribute `name` to an instance of cls: the first
\* class of the MRO that binds it.
RECURSIVE Definer(_, _)
Definer(cls, name) ==
    IF cls = "object" \/ name \in ClassDict(cls) THEN cls
    ELSE Definer(Parent(cls), name)

\* axt.yax
Yax(cls) ==
    CASE Definer(cls, "yax") = "prof_axForm" -> "z"
      [] Definer(cls, "yax") = "spec_axForm" -> "spec"
      [] Definer(cls, "yax") = "cohere_axForm" -> "coh"

\* axt.hrel, in tenths.
Hrel10(cls) == IF Definer(cls, "hrel") = "prof_axForm" THEN 6 ELSE 10

\* axt._lin_x_scale
LinXScale(cls) == IF Definer(cls, "_lin_x_scale") = "base_axForm" THEN 0 ELSE -2

\* Classes of the data objects handed to _calc / plot, with their MRO.
DataClasses == {"tsdata", "tsrun", "tsdata_sub", "tsdata_tsrun", "other"}

DataMro(c) ==
    CASE c = "tsdata" -> <<"tsdata", "object">>
      [] c = "tsrun" -> <<"tsrun", "object">>
      [] c = "tsdata_sub" -> <<"tsdata_sub", "tsdata", "object">>
      [] c = "tsdata_tsrun" -> <<"tsdata_tsrun", "tsdata", "tsrun", "object">>
      [] OTHER -> <<c, "object">>

InMro(k, c) == \E i \in 1..Len(DataMro(c)) : DataMro(c)[i] = k

\* Data objects: class, sample interval dt, hub index.
DataObjs == [cls : DataClasses, dt : DtVals, ihub : HubVals]

\* method_map; a dict, so its iteration order is not fixed by the program.
method_map == [tsdata |-> "_calc_tsdata", tsrun |-> "_calc_tsrun"]

MapOrders == {<<"tsdata", "tsrun">>, <<"tsrun", "tsdata">>}

\* indx
indx == [u |-> 0, v |-> 1, w |-> 2]

\* Component arguments: a str ('u','v','w') or an int (0,1,2).
CompArgs ==
    {[isStr |-> TRUE, s |-> c, i |-> 0] : c \in {"u", "v", "w"}}
    \cup {[isStr |-> FALSE, s |-> "", i |-> k] : k \in 0..2}

\* ------------------------------------------------- arithmetic on rationals

\* int(x) for the rational x = n/d, d > 0: truncation toward zero.
PyInt(n, d) == IF n >= 0 THEN n \div d ELSE -((-n) \div d)

\* np.mod(n, 2)
Mod2(n) == n % 2

\* ------------------------------------------------- the spectral estimators

\* One bin of an estimator's output: the value stands for itself, tagged by the
\* quantity it is and by the frequency bin it belongs to. A frequency carries
\* its value bin*sr/nfft as the fraction num/den.
Bin(q, k, n, d) == [q |-> q, bin |-> k, num |-> n, den |-> d]

\* mpl.mlab.psd(u, nfft, sr, ...): the pair (Pxx, freqs), nfft/2+1 bins each,
\* bin 0 being the zero frequency. sr is the fraction sr[1]/sr[2].
mlab_psd(u, nfft, sr) ==
    LET n == (nfft \div 2) + 1
    IN << [k \in 1..n |-> Bin("power", k - 1, 0, 1)],
          [k \in 1..n |-> Bin("freq", k - 1, (k - 1) * sr[1], nfft * sr[2])] >>

\* mpl.mlab.cohere(u1, u2, nfft, sr, ...): the pair (Cxy, freqs).
mlab_cohere(u1, u2, nfft, sr) ==
    LET n == (nfft \div 2) + 1
    IN << [k \in 1..n |-> Bin("coherence", k - 1, 0, 1)],
          [k \in 1..n |-> Bin("freq", k - 1, (k - 1) * sr[1], nfft * sr[2])] >>

\* a[...,1:]
DropFirst(a) == IF a = <<>> THEN <<>> ELSE Tail(a)

\* A psd that leaves the estimator's value array whole.
psd_keep_zero_bin(u, sr, nfft) ==
    LET est == mlab_psd(u, nfft, sr)
        p == est[1]
        f == est[2]
    IN [est |-> est, ret |-> <<DropFirst(f), p>>]

\* psd(u, sr, nfft): the estimator's output and the returned pair.
psd(u, sr, nfft) ==
    LET est == mlab_psd(u, nfft, sr)
        p == est[1]
        f == est[2]
    IN [est |-> est, ret |-> <<DropFirst(f), DropFirst(p)>>]

\* coh(u1, u2, sr, nfft): the estimator's output and the returned pair.
coh(u1, u2, sr, nfft) ==
    LET est == mlab_cohere(u1, u2, nfft, sr)
        p == est[1]
        f == est[2]
    IN [est |-> est, ret |-> <<DropFirst(f), DropFirst(p)>>]

\* ---------------------------------------------------- the _calc_* lookups

\* Python's `a or b` for a tuple-or-None a: None and () are false.
OrTuple(a, b) == IF a # <<>> THEN a ELSE b

\* Python's `a or b` for an int-or-None a (an int i carried as <<i>>) and an
\* int b: None and 0 are false.
OrInt(a, b) == IF a # <<>> /\ a[1] # 0 THEN a[1] ELSE b

\* What a _calc_* method returns: the arrays it indexes (src, comp and the grid
\* indices used) and, for the estimator-based ones, nfft and what the helper
\* (psd / coh) did: the estimator's own output and the pair it returned.
NoRes ==
    [kind |-> "none", src |-> "", comp |-> 0, iy |-> 0, ig0 |-> <<>>, ig1 |-> <<>>,
     nfft |-> 0, helper |-> [est |-> <<>>, ret |-> << <<>>, <<>> >>]]

NanRes == [NoRes EXCEPT !.kind = "nan"]

ProfRes(src, comp, iy) == [NoRes EXCEPT !.kind = "xy", !.src = src, !.comp = comp, !.iy = iy]

\* An nfft rounded to the even integer below.
nfft_round_down(window_time, dt) ==
    LET nfft == PyInt(window_time * dt[2], dt[1])
    IN nfft - Mod2(nfft)

\* nfft=int(self.window_time/tsdata.dt); nfft+=np.mod(nfft,2)
Nfft(window_time, dt) ==
    LET nfft == PyInt(window_time * dt[2], dt[1])
    IN nfft + Mod2(nfft)

velprof_calc_tsdata(self, d, comp, igrid) == ProfRes("uprof", comp, d.ihub[2])

velprof_calc_tsrun(self, d, comp, igrid) == ProfRes("prof", comp, d.ihub[2])

tkeprof_calc_tsdata(self, d, comp, igrid) == ProfRes("tke", comp, d.ihub[2])

tkeprof_calc_tsrun(self, d, comp, igrid) == ProfRes("spec.tke", comp, d.ihub[2])

stressprof_calc_tsdata(self, d, comp, igrid) ==
    ProfRes("stress", comp, OrInt(igrid, d.ihub[2]))

stressprof_calc_tsrun(self, d, comp, igrid) ==
    ProfRes("stress.array", comp, OrInt(igrid, d.ihub[2]))

spec_calc_tsdata(self, d, comp, igrid) ==
    LET nfft == Nfft(self.window_time, d.dt)
        ig == OrTuple(igrid, OrTuple(self.igrid, d.ihub))
    IN [NoRes EXCEPT !.kind = "xy", !.src = "psd", !.comp = comp, !.ig0 = ig,
                     !.nfft = nfft,
                     !.helper = psd(<<"uturb", comp, ig>>, <<d.dt[2], d.dt[1]>>, nfft)]

spec_calc_tsrun(self, d, comp, igrid) ==
    LET ig == OrTuple(igrid, OrTuple(self.igrid, d.ihub))
    IN [NoRes EXCEPT !.kind = "xy", !.src = "spec", !.comp = comp, !.ig0 = ig]

cohere_calc_tsdata(self, d, comp, igrid0, igrid1) ==
    LET nfft == Nfft(self.window_time, d.dt)
        ig0 == OrTuple(igrid0, OrTuple(self.igrid0, d.ihub))
        ig1 == OrTuple(igrid1, OrTuple(self.igrid1, <<0, 0>>))
    IN [NoRes EXCEPT !.kind = "xy", !.src = "coh", !.comp = comp, !.ig0 = ig0,
                     !.ig1 = ig1, !.nfft = nfft,
                     !.helper = coh(<<"uturb", comp, ig0>>, <<"uturb", comp, ig1>>,
                                    <<d.dt[2], d.dt[1]>>, nfft)]

cohere_calc_tsrun(self, d, comp, igrid0, igrid1) ==
    LET ig0 == OrTuple(igrid0, OrTuple(self.igrid0, d.ihub))
        ig1 == OrTuple(igrid1, OrTuple(self.igrid1, <<0, 0>>))
    IN [NoRes EXCEPT !.kind = "xy", !.src = "calcCoh", !.comp = comp,
                     !.ig0 = ig0, !.ig1 = ig1]

\* getattr(self, meth)(obj, comp, ...): the method the instance's class
\* resolves `meth` to. ig is the first grid-index argument (a tuple, or an
\* optional int for the profile formats), ig1 the second (cohere only).
CallMeth(self, meth, d, comp, ig, ig1) ==
    LET c == Definer(self.cls, meth)
    IN CASE c = "velprof_axForm" /\ meth = "_calc_tsdata" -> velprof_calc_tsdata(self, d, comp, ig)
         [] c = "velprof_axForm" /\ meth = "_calc_tsrun" -> velprof_calc_tsrun(self, d, comp, ig)
         [] c = "tkeprof_axForm" /\ meth = "_calc_tsdata" -> tkeprof_calc_tsdata(self, d, comp, ig)
         [] c = "tkeprof_axForm" /\ meth = "_calc_tsrun" -> tkeprof_calc_tsrun(self, d, comp, ig)
         [] c = "stressprof_axForm" /\ meth = "_calc_tsdata" -> stressprof_calc_tsdata(self, d, comp, ig)
         [] c = "stressprof_axForm" /\ meth = "_calc_tsrun" -> stressprof_calc_tsrun(self, d, comp, ig)
         [] c = "spec_axForm" /\ meth = "_calc_tsdata" -> spec_calc_tsdata(self, d, comp, ig)
         [] c = "spec_axForm" /\ meth = "_calc_tsrun" -> spec_calc_tsrun(self, d, comp, ig)
         [] c = "cohere_axForm" /\ meth = "_calc_tsdata" -> cohere_calc_tsdata(self, d, comp, ig, ig1)
         [] c = "cohere_axForm" /\ meth = "_calc_tsrun" -> cohere_calc_tsrun(self, d, comp, ig, ig1)

\* The exception _calc raises; the message names obj.__class__ and self.__class__.
TypeMsg(d, self) == <<"Exception: Object type not recognized for axes-type", d.cls, self.cls>>

\* No exception.
NoExc == <<>>

\* The outcome of a call: the exception raised (NoExc for none), the _calc_*
\* method invoked ("" for none), the component passed on and the result.
Outcome(raised, called, comp, res) ==
    [raised |-> raised, called |-> called, comp |-> comp, res |-> res]

\* The body of _calc's loop over method_map, from position i of the iteration
\* order on.
RECURSIVE calc_loop(_, _, _, _, _)
calc_loop(self, d, comp, order, i) ==
    IF i > Len(order)
    THEN Outcome(TypeMsg(d, self), "", comp, NoRes)
    ELSE IF InMro(order[i], d.cls)
         THEN IF ~HasAttr(self.cls, method_map[order[i]])
              THEN Outcome(NoExc, "", comp, NanRes)
              ELSE Outcome(NoExc, method_map[order[i]], comp,
                           CallMeth(self, method_map[order[i]], d, comp, None, None))
         ELSE calc_loop(self, d, comp, order, i + 1)

\* A _calc that falls through to (NaN, NaN) where _calc raises.
calc_no_raise(self, d, c, order) ==
    LET comp == IF c.isStr THEN indx[c.s] ELSE c.i
        o == calc_loop(self, d, comp, order, 1)
    IN IF o.raised # NoExc THEN Outcome(NoExc, "", comp, NanRes) ELSE o

\* base_axForm._calc(self, obj, comp), with method_map iterated in `order`.
_calc(self, d, c, order) ==
    LET comp == IF c.isStr THEN indx[c.s] ELSE c.i
    IN calc_loop(self, d, comp, order, 1)

\* ------------------------------------------------------ the format objects

\* The instance state of a format object. An attribute its class does not set
\* is None / 0; hide_ylabels reads the class attribute (False) until set.
AxForm(cls, window_time, igrid, igrid0, igrid1) ==
    [cls |-> cls, hide_ylabels |-> FALSE, window_time |-> window_time,
     igrid |-> igrid, igrid0 |-> igrid0, igrid1 |-> igrid1]

Attrs == {"cls", "hide_ylabels", "window_time", "igrid", "igrid0", "igrid1"}

\* prof_axForm(), velprof_axForm(), tkeprof_axForm(), stressprof_axForm()
prof_init(cls) == AxForm(cls, 0, None, None, None)

\* spec_axForm(window_time_sec, igrid)
spec_init(window_time_sec, igrid) == AxForm("spec_axForm", 600, igrid, None, None)

\* cohere_axForm(window_time_sec, igrid0, igrid1)
cohere_init(window_time_sec, igrid0, igrid1) ==
    AxForm("cohere_axForm", 600, None, igrid0, igrid1)

\* The default of new_summ_fig's axforms argument, built once when the def
\* statement runs: the list [velprof_axForm(), spec_axForm(600)], as object ids.
DefaultHeap == <<prof_init("velprof_axForm"), spec_init(600, None)>>

DefaultAxforms == <<1, 2>>

\* The (id, attribute) pairs on which two heaps differ, over the ids of h.
Diff(h, h2) == {x \in (DOMAIN h) \X Attrs : h[x[1]][x[2]] # h2[x[1]][x[2]]}

\* --------------------------------------------------------------- figures

\* A fig_axForms object: the formats it holds (ids), its components, and the
\* layout computed in __init__ (sharey groups, tight gaps, widths in tenths of
\* axsize). made is FALSE where no figure has been built for the number.
NoFig ==
    [made |-> FALSE, defaulted |-> FALSE, axforms |-> <<>>, comp |-> <<>>,
     sharey |-> <<>>, tight |-> <<>>, width |-> <<>>]

DefaultComp == <<"u", "v", "w">>

\* The formats a caller builds itself: every id past the default list's.
Held(h) == {i \in DOMAIN h : i > Len(DefaultHeap)}

\* The formats a caller builds to put in a figure.
FigFormats ==
    {prof_init("velprof_axForm"), prof_init("tkeprof_axForm"), spec_init(600, None)}

\* The lists of freshly built formats handed to fig_axForms.
FigLists == UNION {[1..k -> FigFormats] : k \in 0..MaxAxforms}

\* The lists handed to new_summ_fig: at most one freshly built format.
SummLists == {<<>>} \cup {<<f>> : f \in FigFormats}

\* The heap once the formats fs of a new list are built: the default list's
\* formats stay (the function object holds them), those of the figure being
\* replaced are no longer referenced.
WithFresh(h, fs) == SubSeq(h, 1, Len(DefaultHeap)) \o fs

\* The ids of the formats fs in WithFresh(h, fs).
FreshIds(fs) == [k \in 1..Len(fs) |-> Len(DefaultHeap) + k]

\* An emptiness test that never fires.
NoAxforms_never(axforms) == FALSE

\* len(axforms)==0
NoAxforms(axforms) == Len(axforms) = 0

\* Marks put on the format before, not on the one whose yax repeats.
HideMarks_predecessor(h, axforms) ==
    {axforms[k - 1] : k \in {j \in 2..Len(axforms) :
                              Yax(h[axforms[j]].cls) = Yax(h[axforms[j - 1]].cls)}}

\* The formats the loop of __init__ sets hide_ylabels on: those whose yax is
\* that of the format before them in the list.
HideMarks(h, axforms) ==
    {axforms[k] : k \in {j \in 2..Len(axforms) :
                          Yax(h[axforms[j]].cls) = Yax(h[axforms[j - 1]].cls)}}

\* The heap after the loop of __init__.
InitHeap(h, axforms) ==
    [i \in DOMAIN h |->
       IF i \in HideMarks(h, axforms) THEN [h[i] EXCEPT !.hide_ylabels = TRUE] ELSE h[i]]

\* sharey's column numbers after the loop of __init__.
RECURSIVE Sharey(_, _, _)
Sharey(h, axforms, idx) ==
    IF idx = 0 THEN <<>>
    ELSE LET prev == Sharey(h, axforms, idx - 1)
         IN IF idx > 1 /\ Yax(h[axforms[idx]].cls) = Yax(h[axforms[idx - 1]].cls)
            THEN Append(prev, prev[idx - 1])
            ELSE Append(prev, idx)

\* The figure fig_axForms.__init__ builds from a non-empty list.
MadeFig(h, axforms, defaulted) ==
    [made |-> TRUE, defaulted |-> defaulted, axforms |-> axforms,
     comp |-> DefaultComp,
     sharey |-> Sharey(h, axforms, Len(axforms)),
     tight |-> [k \in DOMAIN axforms |->
                  k > 1 /\ Yax(h[axforms[k]].cls) = Yax(h[axforms[k - 1]].cls)],
     width |-> [k \in DOMAIN axforms |-> Hrel10(h[axforms[k]].cls)]]

\* ------------------------------------------------------ the last operation

NoData == [cls |-> "", dt |-> <<1, 1>>, ihub |-> <<0, 0>>]

NoComp == [isStr |-> FALSE, s |-> "", i |-> 0]

\* The call the program made last: the operation, the format (self) or figure
\* number it was made on, its arguments, what it raised / called / returned,
\* and the (id, attribute) pairs of the formats it changed.
NoLast ==
    [op |-> "none", self |-> 0, fignum |-> 0, wsec |-> 0, d |-> NoData,
     c |-> NoComp, ig |-> None, ig1 |-> None, axforms |-> <<>>,
     out |-> Outcome(NoExc, "", 0, NoRes), changed |-> {}, made |-> FALSE,
     defaulted |-> FALSE, nlines |-> 0, cols |-> {}]

EmptyMsg == <<"Exception: At least one axes-type instance must be provided.">>

\* ---------------------------------------------- the calc call to be made

\* The grid-index arguments a direct _calc_* call on a format of class cls
\* is given: a lateral index for the profiles, index pairs for the others.
IgArgs(cls) ==
    CASE cls \in ProfClasses -> CallIy \X {None}
      [] cls = "spec_axForm" -> CallIgrids \X {None}
      [] cls = "cohere_axForm" -> CallIgrids \X CallIgrids

NoPend ==
    [op |-> "none", d |-> NoData, c |-> NoComp, order |-> <<>>, ig |-> None, ig1 |-> None]

\* The calls x._calc(obj, comp): any data object, a str or int component.
DispatchCalls ==
    {[op |-> "_calc", d |-> d, c |-> c, order |-> o, ig |-> None, ig1 |-> None] :
       d \in DataObjs, c \in CompArgs, o \in MapOrders}

\* The calls x._calc_tsdata(tsdata, comp, igrid...) and
\* x._calc_tsrun(tsrun, comp, igrid...), comp an int.
DirectCalls ==
    {[op |-> m, d |-> [cls |-> IF m = "_calc_tsdata" THEN "tsdata" ELSE "tsrun",
                       dt |-> dt, ihub |-> hub],
      c |-> [isStr |-> FALSE, s |-> "", i |-> k], order |-> <<>>,
      ig |-> a, ig1 |-> b] :
       m \in {"_calc_tsdata", "_calc_tsrun"}, dt \in DtVals, hub \in HubVals,
       k \in 0..2, a \in CallIy \cup CallIgrids, b \in CallIgrids}

\* ------------------------------------------------------- initial states

\* The module has been imported: the default axforms list of new_summ_fig
\* exists, no figure does, nothing has been called.
Init ==
    /\ heap = DefaultHeap
    /\ figs = [n \in FigNums |-> NoFig]
    /\ last = NoLast
    /\ pend = NoPend

\* As Init, with the calc call the program goes on to make drawn from the
\* calls above.
InitCalc ==
    /\ heap = DefaultHeap
    /\ figs = [n \in FigNums |-> NoFig]
    /\ last = NoLast
    /\ pend \in DispatchCalls \cup DirectCalls

\* ------------------------------------------------- actions: constructors

\* x = prof_axForm() / velprof_axForm() / tkeprof_axForm() / stressprof_axForm()
NewProf ==
    /\ Len(heap) < Len(DefaultHeap) + MaxUserObjs
    /\ \E cls \in ProfClasses :
         /\ heap' = Append(heap, prof_init(cls))
         /\ last' = [NoLast EXCEPT !.op = "__init__", !.self = Len(heap) + 1]
    /\ UNCHANGED <<figs, pend>>

\* x = spec_axForm(window_time_sec, igrid)
NewSpec ==
    /\ Len(heap) < Len(DefaultHeap) + MaxUserObjs
    /\ \E w \in WindowArgs, ig \in StoredIgrids :
         /\ heap' = Append(heap, spec_init(w, ig))
         /\ last' = [NoLast EXCEPT !.op = "__init__", !.self = Len(heap) + 1,
                                   !.wsec = w, !.ig = ig]
    /\ UNCHANGED <<figs, pend>>

\* x = cohere_axForm(window_time_sec, igrid0, igrid1)
NewCohere ==
    /\ Len(heap) < Len(DefaultHeap) + MaxUserObjs
    /\ \E w \in WindowArgs, ig0 \in StoredIgrids, ig1 \in StoredIgrids :
         /\ heap' = Append(heap, cohere_init(w, ig0, ig1))
         /\ last' = [NoLast EXCEPT !.op = "__init__", !.self = Len(heap) + 1,
                                   !.wsec = w, !.ig = ig0, !.ig1 = ig1]
    /\ UNCHANGED <<figs, pend>>

\* --------------------------------------------- actions: the calc methods

\* x._calc(obj, comp)
Calc ==
    /\ pend.op = "_calc"
    /\ \E i \in Held(heap) :
         last' = [NoLast EXCEPT !.op = "_calc", !.self = i, !.d = pend.d, !.c = pend.c,
                                !.out = _calc(heap[i], pend.d, pend.c, pend.order)]
    /\ pend' = NoPend
    /\ UNCHANGED <<heap, figs>>

\* x._calc_tsdata(tsdata, comp, igrid...) / x._calc_tsrun(tsrun, comp, igrid...)
CalcDirect ==
    /\ pend.op \in {"_calc_tsdata", "_calc_tsrun"}
    /\ \E i \in Held(heap) :
         /\ HasAttr(heap[i].cls, pend.op)
         /\ <<pend.ig, pend.ig1>> \in IgArgs(heap[i].cls)
         /\ last' = [NoLast EXCEPT
                       !.op = pend.op, !.self = i, !.d = pend.d, !.c = pend.c,
                       !.ig = pend.ig, !.ig1 = pend.ig1,
                       !.out = Outcome(NoExc, pend.op, pend.c.i,
                                       CallMeth(heap[i], pend.op, pend.d, pend.c.i,
                                                pend.ig, pend.ig1))]
    /\ pend' = NoPend
    /\ UNCHANGED <<heap, figs>>

\* ----------------------------------------------------- actions: figures

\* fig_axForms.__init__(self, fignum, axforms), reached as `op`, on the heap
\* `pre` in which the formats of axforms exist.
FigInit(op, fignum, pre, axforms, defaulted) ==
    IF NoAxforms(axforms)
    THEN /\ last' = [NoLast EXCEPT !.op = op, !.fignum = fignum, !.axforms = axforms,
                                   !.defaulted = defaulted,
                                   !.out = Outcome(EmptyMsg, "", 0, NoRes)]
         /\ UNCHANGED <<heap, figs>>
    ELSE /\ heap' = InitHeap(pre, axforms)
         /\ figs' = [figs EXCEPT ![fignum] = MadeFig(pre, axforms, defaulted)]
         /\ last' = [NoLast EXCEPT !.op = op, !.fignum = fignum, !.axforms = axforms,
                                   !.defaulted = defaulted, !.made = TRUE,
                                   !.changed = Diff(pre, heap')]

\* fig_axForms(fignum, axforms=[...freshly built formats...])
FigAxForms ==
    /\ \E n \in FigNums, fs \in FigLists :
         \E pre \in {WithFresh(heap, fs)}, ax \in {FreshIds(fs)} :
            FigInit("fig_axForms", n, pre, ax, FALSE)
    /\ UNCHANGED pend

\* new_summ_fig(fignum): the axforms argument left to its default.
NewSummFigDefault ==
    /\ \E n \in FigNums :
         \E pre \in {WithFresh(heap, <<>>)} :
            FigInit("new_summ_fig", n, pre, DefaultAxforms, TRUE)
    /\ UNCHANGED pend

\* new_summ_fig(fignum, axforms=[...]) with at most one freshly built format.
NewSummFig ==
    /\ \E n \in FigNums, fs \in SummLists :
         \E pre \in {WithFresh(heap, fs)}, ax \in {FreshIds(fs)} :
            FigInit("new_summ_fig", n, pre, ax, FALSE)
    /\ UNCHANGED pend

\* The data objects handed to fig.plot.
PlotData == [cls : DataClasses, dt : {<<100, 1>>}, ihub : HubVals]

\* The k-th _calc call of fig_axForms.plot: the calls go format by format
\* (column) and, within a column, axes by axes: axt._calc(obj, ax.comp).
PlotCall(h, fg, d, order, k) ==
    _calc(h[fg.axforms[((k - 1) \div Len(fg.comp)) + 1]], d,
          [isStr |-> TRUE, s |-> fg.comp[((k - 1) % Len(fg.comp)) + 1], i |-> 0],
          order)

\* fig_axForms.plot from its k-th call on: the exception that ends it (NoExc
\* when it runs to the end) and the number of lines drawn.
RECURSIVE PlotFrom(_, _, _, _, _)
PlotFrom(h, fg, d, order, k) ==
    IF k > Len(fg.axforms) * Len(fg.comp)
    THEN [raised |-> NoExc, nlines |-> k - 1]
    ELSE IF PlotCall(h, fg, d, order, k).raised # NoExc
         THEN [raised |-> PlotCall(h, fg, d, order, k).raised, nlines |-> k - 1]
         ELSE PlotFrom(h, fg, d, order, k + 1)

\* fig.plot(obj)
Plot ==
    /\ heap' = heap
    /\ \E n \in FigNums, d \in PlotData, order \in MapOrders :
         /\ figs[n].made
         /\ \E r \in {PlotFrom(heap, figs[n], d, order, 1)} :
              last' = [NoLast EXCEPT !.op = "plot", !.fignum = n,
                                     !.changed = Diff(heap, heap'),
                                     !.out = Outcome(r.raised, "", 0, NoRes),
                                     !.nlines = r.nlines]
    /\ UNCHANGED <<figs, pend>>

\* fig.finalize(): each format finishes its column; cols are the columns
\* whose axes get a y label.
Finalize ==
    /\ heap' = heap
    /\ \E n \in FigNums :
         /\ figs[n].made
         /\ last' = [NoLast EXCEPT
                       !.op = "finalize", !.fignum = n,
                       !.changed = Diff(heap, heap'),
                       !.cols = {k \in DOMAIN figs[n].axforms :
                                   /\ ~heap[figs[n].axforms[k]].hide_ylabels
                                   /\ HasAttr(heap[figs[n].axforms[k]].cls, "_ylabel")}]
    /\ UNCHANGED <<figs, pend>>

\* The index-pair attributes a caller may set on a format of class cls.
IndexAttrs(cls) ==
    CASE cls = "spec_axForm" -> {"igrid"}
      [] cls = "cohere_axForm" -> {"igrid0", "igrid1"}
      [] OTHER -> {}

\* fig.axforms[k].igrid = val (igrid0 / igrid1 on a cohere_axForm)
SetIgrid ==
    /\ \E n \in FigNums :
         /\ figs[n].made
         /\ \E k \in DOMAIN figs[n].axforms :
              LET i == figs[n].axforms[k]
              IN \E a \in IndexAttrs(heap[i].cls), val \in StoredIgrids :
                   /\ heap' = [heap EXCEPT ![i][a] = val]
                   /\ last' = [NoLast EXCEPT
                                 !.op = "setattr", !.fignum = n, !.self = i, !.ig = val,
                                 !.changed = Diff(heap, heap')]
    /\ UNCHANGED <<figs, pend>>

\* ------------------------------------------------------- specifications

\* The program that draws through figures.
Next ==
    \/ NewProf
    \/ NewSpec
    \/ NewCohere
    \/ FigAxForms
    \/ NewSummFigDefault
    \/ NewSummFig
    \/ Plot
    \/ Finalize
    \/ SetIgrid

Spec == Init /\ [][Next]_vars

\* The program that builds formats and calls one of their calc methods itself.
NextCalc ==
    \/ NewProf
    \/ NewSpec
    \/ NewCohere
    \/ Calc
    \/ CalcDirect

SpecCalc == InitCalc /\ [][NextCalc]_vars

\* ------------------------------------------------------------- claims

TsdataOnly(c) == InMro("tsdata", c) /\ ~InMro("tsrun", c)

TsrunOnly(c) == InMro("tsrun", c) /\ ~InMro("tsdata", c)

\* C1 as stated: _calc raises the exception naming the object's class exactly
\* when neither tsdata nor tsrun is in the MRO of obj's class, calling no
\* _calc_* method then; with tsdata (tsrun) in the MRO it raises nothing and
\* returns what _calc_tsdata (_calc_tsrun) returns, a str comp translated first.
C1_DispatchAsStated ==
    last.op = "_calc" =>
      LET self == heap[last.self]
          d == last.d
          o == last.out
          comp == IF last.c.isStr THEN indx[last.c.s] ELSE last.c.i
      IN /\ o.comp = comp
         /\ (~InMro("tsdata", d.cls) /\ ~InMro("tsrun", d.cls))
              => (o.raised = TypeMsg(d, self) /\ o.called = "")
         /\ InMro("tsdata", d.cls)
              => /\ o.raised = NoExc
                 /\ o.called = "_calc_tsdata"
                 /\ o.res = CallMeth(self, "_calc_tsdata", d, comp, None, None)
         /\ InMro("tsrun", d.cls)
              => /\ o.raised = NoExc
                 /\ o.called = "_calc_tsrun"
                 /\ o.res = CallMeth(self, "_calc_tsrun", d, comp, None, None)

\* C1 amended: _calc raises the exception naming obj's class and the format's
\* class, and calls no _calc_* method, exactly when neither tsdata nor tsrun
\* is in the MRO of obj's class. Otherwise it raises nothing; when exactly one
\* of the two is in the MRO it returns what the mapped method returns for the
\* translated comp if the format has that method, and (NaN, NaN) without
\* calling anything if it has not; when both are in the MRO it does one of
\* these for one of the two mapped methods.
C1_Dispatch ==
    last.op = "_calc" =>
      LET self == heap[last.self]
          d == last.d
          o == last.out
          comp == IF last.c.isStr THEN indx[last.c.s] ELSE last.c.i
          Served(meth) ==
            IF HasAttr(self.cls, meth)
            THEN o.called = meth /\ o.res = CallMeth(self, meth, d, comp, None, None)
            ELSE o.called = "" /\ o.res = NanRes
      IN /\ o.comp = comp
         /\ (~InMro("tsdata", d.cls) /\ ~InMro("tsrun", d.cls))
              <=> o.raised # NoExc
         /\ o.raised # NoExc => (o.raised = TypeMsg(d, self) /\ o.called = "")
         /\ TsdataOnly(d.cls) => Served("_calc_tsdata")
         /\ TsrunOnly(d.cls) => Served("_calc_tsrun")
         /\ (InMro("tsdata", d.cls) /\ InMro("tsrun", d.cls))
              => (Served("_calc_tsdata") \/ Served("_calc_tsrun"))

\* C1 witness: _calc was given a str comp and an object of a class with
\* neither tsdata nor tsrun in its MRO, and raised.
C1_Witness ==
    /\ last.op = "_calc"
    /\ last.c.isStr
    /\ ~InMro("tsdata", last.d.cls) /\ ~InMro("tsrun", last.d.cls)
    /\ last.out.raised # NoExc

\* The calls that went through spec_axForm._calc_tsdata or
\* cohere_axForm._calc_tsdata.
EstimatorCall ==
    /\ last.op \in {"_calc", "_calc_tsdata"}
    /\ last.out.called = "_calc_tsdata"
    /\ heap[last.self].cls \in {"spec_axForm", "cohere_axForm"}

\* C2: in spec_axForm._calc_tsdata and cohere_axForm._calc_tsdata the nfft
\* handed to the helper is even, and is floor(window_time/dt) when that is
\* even and floor(window_time/dt)+1 when it is odd.
C2_NfftEven ==
    EstimatorCall =>
      LET n == last.out.res.nfft
          wt == heap[last.self].window_time
          dt == last.d.dt
          est == last.out.res.helper.est
      IN /\ n % 2 = 0
         /\ Len(est[1]) = (n \div 2) + 1
         /\ \E f \in {n - 1, n} :
              /\ f * dt[1] <= wt * dt[2]
              /\ wt * dt[2] < (f + 1) * dt[1]
              /\ n = IF f % 2 = 0 THEN f ELSE f + 1

\* C2 witness: a call where floor(window_time/dt) is odd, so nfft exceeds
\* window_time/dt.
C2_Witness ==
    /\ EstimatorCall
    /\ last.out.res.nfft * last.d.dt[1] > heap[last.self].window_time * last.d.dt[2]

\* C3: psd and coh return the estimator's frequency array and value array
\* with exactly the zero-frequency bin removed from both: equal lengths, one
\* less than the estimator's, and the elements left pairwise aligned.
C3_ZeroBinDropped ==
    EstimatorCall =>
      LET est == last.out.res.helper.est
          ret == last.out.res.helper.ret
      IN /\ Len(ret[1]) = Len(ret[2])
         /\ Len(ret[1]) = Len(est[1]) - 1
         /\ Len(ret[1]) = Len(est[2]) - 1
         /\ {ret[1], ret[2]} = {Tail(est[1]), Tail(est[2])}
         /\ \A k \in 1..Len(ret[1]) : ret[1][k].bin = k /\ ret[2][k].bin = k

\* C3 witness: a helper call whose estimator returned at least three bins.
C3_Witness ==
    /\ EstimatorCall
    /\ Len(last.out.res.helper.est[1]) >= 3
    /\ Len(last.out.res.helper.ret[1]) >= 2

\* C8 as stated: psd and coh return the pair (p, f): first the power
\* (coherence), second the frequency.
C8_PowerFirst ==
    EstimatorCall =>
      LET ret == last.out.res.helper.ret
      IN /\ \A k \in 1..Len(ret[1]) : ret[1][k].q \in {"power", "coherence"}
         /\ \A k \in 1..Len(ret[2]) : ret[2][k].q = "freq"

\* C6 as stated: the window duration _calc_tsdata derives nfft from is the
\* window_time_sec the format was constructed with.
C6_WindowTimeSecUsed ==
    (last.op = "__init__" /\ heap[last.self].cls \in {"spec_axForm", "cohere_axForm"}) =>
      \A dt \in DtVals :
        CallMeth(heap[last.self], "_calc_tsdata",
                 [cls |-> "tsdata", dt |-> dt, ihub |-> <<1, 1>>], 0, None, None).nfft
          = Nfft(last.wsec, dt)

\* C7 as stated: the grid point plotted is the index given in the call when
\* one is given (index 0 included), else the index stored on the format, else
\* the default: the hub index, and (0,0) for cohere's igrid1.
C7_GivenIndexUsed ==
    last.op \in {"_calc_tsdata", "_calc_tsrun"} =>
      LET self == heap[last.self]
          r == last.out.res
          hub == last.d.ihub
      IN /\ self.cls \in ProfClasses
              => r.iy = IF last.ig # None THEN last.ig[1] ELSE hub[2]
         /\ self.cls = "spec_axForm"
              => r.ig0 = IF last.ig # None THEN last.ig
                         ELSE IF self.igrid # None THEN self.igrid ELSE hub
         /\ self.cls = "cohere_axForm"
              => /\ r.ig0 = IF last.ig # None THEN last.ig
                            ELSE IF self.igrid0 # None THEN self.igrid0 ELSE hub
                 /\ r.ig1 = IF last.ig1 # None THEN last.ig1
                            ELSE IF self.igrid1 # None THEN self.igrid1 ELSE <<0, 0>>

FigInitOps == {"fig_axForms", "new_summ_fig"}

\* C4 as stated: building a fig_axForms from a list of formats, and its plot
\* and finalize, leave every attribute of every format as it was.
C4_NoFormatChanged ==
    last.op \in FigInitOps \cup {"plot", "finalize"} => last.changed = {}

\* C4 amended: plot and finalize leave every attribute of every format as it
\* was; building a fig_axForms changes nothing but hide_ylabels, which it sets
\* to True on each format of the list whose yax equals the yax of the format
\* before it in the list.
C4_OnlyHideYlabels ==
    /\ last.op \in {"plot", "finalize"} => last.changed = {}
    /\ last.op \in FigInitOps =>
         /\ \A x \in last.changed :
              /\ x[2] = "hide_ylabels"
              /\ heap[x[1]].hide_ylabels
              /\ \E k \in 2..Len(last.axforms) :
                   /\ last.axforms[k] = x[1]
                   /\ Yax(heap[last.axforms[k]].cls) = Yax(heap[last.axforms[k - 1]].cls)
         /\ last.made =>
              \A k \in 2..Len(last.axforms) :
                Yax(heap[last.axforms[k]].cls) = Yax(heap[last.axforms[k - 1]].cls)
                  => heap[last.axforms[k]].hide_ylabels

\* C4 witness: a fig_axForms was built and a format of its list changed.
C4_Witness ==
    /\ last.op = "fig_axForms"
    /\ last.made
    /\ last.changed # {}

\* C5 as stated: the formats a new_summ_fig call with the default axforms
\* sees are those of the default list as written, [velprof_axForm(),
\* spec_axForm(600)], whatever was done through figures built before.
C5_DefaultsFresh ==
    (last.op = "new_summ_fig" /\ last.defaulted /\ last.made) =>
      \A k \in DOMAIN last.axforms :
        heap[figs[last.fignum].axforms[k]] = DefaultHeap[k]

\* C9: fig_axForms construction with an empty axforms list raises 'At least
\* one axes-type instance must be provided.' with no figure built and no
\* format or figure changed; with a non-empty list it does not raise it.
C9_EmptyListRaises ==
    /\ [](last.op \in FigInitOps =>
            /\ Len(last.axforms) = 0 => (last.out.raised = EmptyMsg /\ ~last.made)
            /\ Len(last.axforms) > 0 => (last.out.raised = NoExc /\ last.made))
    /\ [][last'.out.raised = EmptyMsg => (heap' = heap /\ figs' = figs)]_vars

\* C9 witness: a construction with an empty list was tried and raised.
C9_Witness ==
    /\ last.op \in FigInitOps
    /\ Len(last.axforms) = 0
    /\ last.out.raised = EmptyMsg

====
